---- MODULE Spec2Model ----
(***************************************************************************)
(* pyrepl.nvim, bin/server.py: the HTTP front end of a persistent IPython  *)
(* session.  One server thread (http.server.HTTPServer, not the threading  *)
(* variant) runs the request handlers one after the other; every accepted  *)
(* /execute starts a daemon thread running _run_code_in_background, and    *)
(* these threads interleave with the handler and with each other.          *)
(***************************************************************************)
EXTENDS Integers, Sequences, FiniteSets, TLC

(* ------------------------------ bounds --------------------------------- *)

\* number of HTTP requests the server receives in a run
MaxReq == 3

\* the requests of a run of the reset race (RaceSpec)
MaxRace == 4

\* length of the texts strip_ansi_codes is called on (StripSpec)
MaxLen == 4

\* length of the captured streams the classification is called on (ClassifySpec)
MaxText == 2

(* ------------------------------- texts --------------------------------- *)
\* A text is a sequence of one-character tokens; "ESC" is \x1B, "NL" is \n.

Names == {"x"}

IsSingle(c) == c \in {"A"}
IsParam(c) == c \in {"0"}
IsIntermediate(c) == c \in {" "}
IsFinal(c) == c \in {"A", "[", "m", "a"}
IsSpace(c) == c \in {" ", "NL"}

\* number of leading tokens of t, from position i on, that satisfy the class
RECURSIVE RunLen(_, _, _)
RunLen(t, i, cls) ==
    IF i > Len(t) THEN 0
    ELSE IF cls = "param" /\ IsParam(t[i]) THEN 1 + RunLen(t, i + 1, cls)
    ELSE IF cls = "inter" /\ IsIntermediate(t[i]) THEN 1 + RunLen(t, i + 1, cls)
    ELSE 0

\* length of the match of ansi_regex at position i of t, 0 when none
MatchLen(t, i) ==
    IF i > Len(t) \/ t[i] # "ESC" \/ i + 1 > Len(t) THEN 0
    ELSE IF IsSingle(t[i + 1]) THEN 2
    ELSE IF t[i + 1] # "[" THEN 0
    ELSE LET p == RunLen(t, i + 2, "param")
             q == RunLen(t, i + 2 + p, "inter")
             f == i + 2 + p + q
         IN  IF f <= Len(t) /\ IsFinal(t[f]) THEN f - i + 1 ELSE 0

RECURSIVE SubFrom(_, _)
SubFrom(t, i) ==
    IF i > Len(t) THEN <<>>
    ELSE LET m == MatchLen(t, i)
         IN  IF m > 0 THEN SubFrom(t, i + m)
             ELSE <<t[i]>> \o SubFrom(t, i + 1)

\* the tokens the texts of StripSpec are made of: ESC, the CSI introducer, a
\* parameter byte, an intermediate byte, a final byte, a byte that is both a
\* two-character escape and a final byte, and a byte of no class
Alphabet == {"ESC", "[", "0", " ", "m", "A", "NL"}

Texts == UNION { [1..k -> Alphabet] : k \in 0..MaxLen }

\* a substitution that stops after the first match (count=1)
strip_ansi_codes_FirstOnly(text) ==
    LET at == { i \in 1..Len(text) : MatchLen(text, i) > 0 }
    IN  IF at = {} THEN text
        ELSE LET i == CHOOSE j \in at : \A k \in at : j <= k
             IN  SubSeq(text, 1, i - 1) \o
                 SubSeq(text, i + MatchLen(text, i), Len(text))

strip_ansi_codes(text) == IF text # <<>> THEN SubFrom(text, 1) ELSE <<>>

RECURSIVE LStrip(_)
LStrip(t) == IF t # <<>> /\ IsSpace(Head(t)) THEN LStrip(Tail(t)) ELSE t

RECURSIVE RStrip(_)
RStrip(t) ==
    IF t # <<>> /\ IsSpace(t[Len(t)]) THEN RStrip(SubSeq(t, 1, Len(t) - 1)) ELSE t

\* str.strip()
Strip(t) == RStrip(LStrip(t))

(* ----------------------------- request bodies -------------------------- *)
\* post_data after json.loads: valid is FALSE when json.loads raises; top is
\* the type of the decoded value; has_code and code_type describe the
\* object's "code" member; items are the elements of a list-valued "code".

JStr(s) == [t |-> "str", v |-> s]
JNum(s) == [t |-> "num", v |-> s]

Body(valid, top, has, ctype, items) ==
    [valid |-> valid, top |-> top, has_code |-> has, code_type |-> ctype, items |-> items]

NoBody == Body(FALSE, "none", FALSE, "none", <<>>)

Bodies ==
    { Body(FALSE, "none", FALSE, "none", <<>>),              \* not JSON
      Body(TRUE, "list", FALSE, "none", <<>>),               \* [1]
      Body(TRUE, "obj", FALSE, "none", <<>>),                \* {}
      Body(TRUE, "obj", TRUE, "str", <<>>),                  \* {"code": "not-a-list"}
      Body(TRUE, "obj", TRUE, "list", <<JNum("1")>>),        \* {"code": [1]}
      Body(TRUE, "obj", TRUE, "list", <<>>),                 \* {"code": []}
      Body(TRUE, "obj", TRUE, "list", <<JStr("x = 1")>>) }   \* {"code": ["x = 1"]}

Requests ==
    { [method |-> "GET", path |-> "/health", body |-> NoBody],
      [method |-> "GET", path |-> "/unknown", body |-> NoBody],
      [method |-> "POST", path |-> "/unknown", body |-> NoBody],
      [method |-> "POST", path |-> "/reset", body |-> NoBody] }
    \cup { [method |-> "POST", path |-> "/execute", body |-> b] : b \in Bodies }

\* validate_code_exc_data: <<code, error>>; error is TRUE when an error
\* string is returned
validate_code_exc_data(post_data) ==
    IF ~post_data.valid THEN <<(<<>>), TRUE>>                 \* json.loads raises
    ELSE IF post_data.top # "obj" THEN <<(<<>>), TRUE>>     \* no .get on the value
    ELSE LET ctype == IF post_data.has_code THEN post_data.code_type ELSE "list"
             code == IF post_data.has_code THEN post_data.items ELSE <<>>
         IN  IF ctype # "list" THEN <<(<<>>), TRUE>>
             ELSE <<code, FALSE>>

\* "\n".join(code) raises TypeError on an element that is not a str
JoinRaises(code) == \E i \in 1..Len(code) : code[i].t # "str"

\* the code lines as the strings they are
Lines(code) == [i \in 1..Len(code) |-> code[i].v]

(* ------------------------------ the engine ----------------------------- *)
\* What shell_instance.run_cell yields: the captured streams and the
\* ExecutionResult's error_before_exec / error_in_exec.

NoText == <<>>
PreMsg == <<"P">>        \* f"Error before execution: {error_before_exec}"
Traceback == <<"T">>     \* "".join(traceback.format_exception(...))
FormatExc == <<"F">>     \* traceback.format_exc()
ResetMsg == <<"R">>      \* "Cleared REPL scope (IPython reset)"
ResetCode == <<"# Reset Command Received">>

EngineResult(out, err, pre, run) ==
    [stdout |-> out, stderr |-> err, error_before_exec |-> pre, error_in_exec |-> run]

\* the engine results drawn for an execution: of code that prints with a
\* colour escape or raises with nothing printed; of no code at all, nothing
EngineResults(lines) ==
    IF lines = <<>>
    THEN { EngineResult(NoText, NoText, FALSE, FALSE) }
    ELSE { EngineResult(<<"ESC", "[", "m", "a">>, NoText, FALSE, FALSE),
           EngineResult(NoText, NoText, FALSE, TRUE) }

\* the dict built by the coordinator; has is FALSE for the initial {}
Result(out, err) == [has |-> TRUE, output |-> out, error |-> err]
EmptyResult == [has |-> FALSE, output |-> NoText, error |-> NoText]

\* a classification that puts the traceback in place of whatever was captured
Classify_TracebackAlways(e) ==
    LET error_output ==
            IF e.error_before_exec THEN e.stderr \o PreMsg
            ELSE IF e.error_in_exec THEN Traceback
            ELSE e.stderr
    IN  Result(e.stdout, error_output)

\* lines 99-122: the outcome of a returned engine call
Classify(e) ==
    LET error_output ==
            IF e.error_before_exec THEN e.stderr \o PreMsg
            ELSE IF e.error_in_exec /\ e.stdout = NoText /\ e.stderr = NoText
                 THEN Traceback
            ELSE e.stderr
    IN  Result(e.stdout, error_output)

(* ------------------------------ the log file --------------------------- *)

\* req is not in the file: it names the request whose write appended the block
HeaderBlock == [kind |-> "header", req |-> 0, code |-> <<>>, content |-> NoText]

\* lines 55-75: the block write_to_log appends
LogBlock(r, code_lines, result) ==
    LET output_str == strip_ansi_codes(result.output)
        error_str == strip_ansi_codes(result.error)
        c1 == IF output_str # NoText THEN output_str ELSE NoText
        c2 == IF error_str # NoText
              THEN (IF c1 # NoText THEN c1 \o <<"NL">> ELSE c1) \o error_str
              ELSE c1
    IN  [kind |-> "record", req |-> r, code |-> code_lines, content |-> Strip(c2)]

(* ------------------------------- state --------------------------------- *)

VARIABLES
    ipshell,        \* TRUE when the IPython shell exists
    log_file_path,  \* TRUE when setup_logging returned a path
    log_file,       \* the blocks of the transcript file, in file order
    is_executing,   \* the admission flag
    session,        \* the names bound in the shell's user namespace
    reqs,           \* the requests received so far, by kind
    post_data,      \* the body of the request being handled
    hpc,            \* where the server thread is in its handler
    code,           \* execute_code's local: the validated code list
    resp,           \* resp[r]: the status sent for request r, 0 before
    cpc,            \* cpc[r]: where the thread started for request r is
    code_lines,     \* code_lines[r]: the thread's argument
    result,         \* result[r]: the thread's local result dict
    seen,           \* seen[r]: the namespace as run_cell of r found it
    wrote,          \* wrote[r]: "" before write_to_log of r, then its outcome
    pre,            \* pre[r]: what reset r found: the bound names, and whether
                    \* a thread started earlier had yet to clear the flag
    call,           \* the function under test called on its own, "none" in the server
    arg,            \* its argument
    ret             \* what it returned

vars == <<ipshell, log_file_path, log_file, is_executing, session, reqs, post_data,
          hpc, code, resp, cpc, code_lines, result, seen, wrote, pre, call, arg, ret>>

ReqIds == 1..(IF MaxRace > MaxReq THEN MaxRace ELSE MaxReq)

\* the request the server thread is handling (or handled last)
cur == Len(reqs)

\* no function is called on its own
NoCall == call = "none" /\ arg = <<>> /\ ret = <<>>

\* run_server has set up the log and the shell and serves
Started ==
    /\ ipshell = TRUE
    /\ log_file_path \in BOOLEAN
    /\ log_file = IF log_file_path THEN <<HeaderBlock>> ELSE <<>>
    /\ is_executing = FALSE
    /\ session = {}
    /\ reqs = <<>>
    /\ post_data = NoBody
    /\ hpc = "idle"
    /\ code = <<>>
    /\ resp = [r \in ReqIds |-> 0]
    /\ cpc = [r \in ReqIds |-> "none"]
    /\ code_lines = [r \in ReqIds |-> <<>>]
    /\ result = [r \in ReqIds |-> EmptyResult]
    /\ seen = [r \in ReqIds |-> {}]
    /\ wrote = [r \in ReqIds |-> ""]
    /\ pre = [r \in ReqIds |-> [names |-> {}, stale |-> FALSE]]

Init == NoCall /\ Started

(* --------------------------- shared operations ------------------------- *)

\* send_json_response / send_response for request r
Send(r, status) == resp' = [resp EXCEPT ![r] = status]

\* a write_to_log that puts the header in front of every block
write_to_log_WithHeader(r, lines, res, ok) ==
    IF ~log_file_path
    THEN /\ wrote' = [wrote EXCEPT ![r] = "off"]
         /\ UNCHANGED log_file
    ELSE IF ok
    THEN /\ log_file' = log_file \o <<HeaderBlock, LogBlock(r, lines, res)>>
         /\ wrote' = [wrote EXCEPT ![r] = "ok"]
    ELSE /\ wrote' = [wrote EXCEPT ![r] = "failed"]
         /\ UNCHANGED log_file

\* write_to_log called for request r; ok is whether open/write succeed
write_to_log(r, lines, res, ok) ==
    IF ~log_file_path
    THEN /\ wrote' = [wrote EXCEPT ![r] = "off"]
         /\ UNCHANGED log_file
    ELSE IF ok
    THEN /\ log_file' = Append(log_file, LogBlock(r, lines, res))
         /\ wrote' = [wrote EXCEPT ![r] = "ok"]
    ELSE /\ wrote' = [wrote EXCEPT ![r] = "failed"]
         /\ UNCHANGED log_file

(* ------------------------- the server thread --------------------------- *)

\* what the handlers make of a request: its route
Kind(q) ==
    IF q.method = "GET" /\ q.path = "/health" THEN "health"
    ELSE IF q.method = "POST" /\ q.path = "/execute" THEN "execute"
    ELSE IF q.method = "POST" /\ q.path = "/reset" THEN "reset"
    ELSE "unknown"

\* a request arrives while the server thread is between handlers
ArriveUpTo(q, n) ==
    /\ hpc = "idle"
    /\ Len(reqs) < n
    /\ reqs' = Append(reqs, Kind(q))

Arrive(q) == ArriveUpTo(q, MaxReq)

\* a do_GET that is held back while the flag is set
do_GET_WhenIdle(q) ==
    /\ q.method = "GET"
    /\ ~is_executing
    /\ Arrive(q)
    /\ Send(cur + 1, IF q.path = "/health" THEN 200 ELSE 404)
    /\ UNCHANGED <<call, arg, ret, ipshell, log_file_path, log_file, is_executing, session, post_data,
                   hpc, code, cpc, code_lines, result, seen, wrote, pre>>

do_GET(q) ==
    /\ q.method = "GET"
    /\ Arrive(q)
    /\ Send(cur + 1, IF q.path = "/health" THEN 200 ELSE 404)
    /\ UNCHANGED <<call, arg, ret, ipshell, log_file_path, log_file, is_executing, session, post_data,
                   hpc, code, cpc, code_lines, result, seen, wrote, pre>>

do_POST_UpTo(q, n) ==
    /\ q.method = "POST"
    /\ ArriveUpTo(q, n)
    /\ IF q.path = "/execute"
       THEN hpc' = "execute_code" /\ post_data' = q.body /\ UNCHANGED resp
       ELSE IF q.path = "/reset"
       THEN hpc' = "reset_scope" /\ UNCHANGED <<post_data, resp>>
       ELSE hpc' = "idle" /\ Send(cur + 1, 404) /\ UNCHANGED post_data
    /\ UNCHANGED <<call, arg, ret, ipshell, log_file_path, log_file, is_executing, session, code,
                   cpc, code_lines, result, seen, wrote, pre>>

do_POST(q) == do_POST_UpTo(q, MaxReq)

\* execute_code returns (or dies): its locals are gone
Return == hpc' = "idle" /\ post_data' = NoBody /\ code' = <<>>

\* execute_code without the test of lines 160-162
execute_code_validate_NoShellCheck ==
    /\ hpc = "execute_code"
    /\ LET v == validate_code_exc_data(post_data)
       IN  IF v[2]
           THEN Send(cur, 400) /\ Return
           ELSE code' = v[1] /\ hpc' = "gate" /\ UNCHANGED <<resp, post_data>>
    /\ UNCHANGED <<call, arg, ret, ipshell, log_file_path, log_file, is_executing, session, reqs,
                   cpc, code_lines, result, seen, wrote, pre>>

\* lines 160-169: the shell check and the body validation
execute_code_validate ==
    /\ hpc = "execute_code"
    /\ IF ~ipshell
       THEN Send(cur, 500) /\ Return
       ELSE LET v == validate_code_exc_data(post_data)
            IN  IF v[2]
                THEN Send(cur, 400) /\ Return
                ELSE code' = v[1] /\ hpc' = "gate" /\ UNCHANGED <<resp, post_data>>
    /\ UNCHANGED <<call, arg, ret, ipshell, log_file_path, log_file, is_executing, session, reqs,
                   cpc, code_lines, result, seen, wrote, pre>>

\* the gate without its test of the flag: every request is admitted
execute_code_gate_NoCheck ==
    /\ hpc = "gate"
    /\ is_executing' = TRUE /\ hpc' = "respond" /\ UNCHANGED <<resp, post_data, code>>
    /\ UNCHANGED <<call, arg, ret, ipshell, log_file_path, log_file, session, reqs,
                   cpc, code_lines, result, seen, wrote, pre>>

\* lines 171-178, under execution_lock
execute_code_gate ==
    /\ hpc = "gate"
    /\ IF is_executing
       THEN Send(cur, 409) /\ Return /\ UNCHANGED is_executing
       ELSE is_executing' = TRUE /\ hpc' = "respond" /\ UNCHANGED <<resp, post_data, code>>
    /\ UNCHANGED <<call, arg, ret, ipshell, log_file_path, log_file, session, reqs,
                   cpc, code_lines, result, seen, wrote, pre>>

\* lines 180 and 183-186 in the wrong order: the thread is started, the
\* response is not yet sent
execute_code_respond_StartFirst ==
    /\ hpc = "respond"
    /\ hpc' = "start"
    /\ cpc' = [cpc EXCEPT ![cur] = "echo"]
    /\ code_lines' = [code_lines EXCEPT ![cur] = Lines(code)]
    /\ UNCHANGED <<call, arg, ret, ipshell, log_file_path, log_file, is_executing, session, reqs,
                   post_data, code, resp, result, seen, wrote, pre>>

\* line 180
execute_code_respond ==
    /\ hpc = "respond"
    /\ Send(cur, 200)
    /\ hpc' = "start"
    /\ UNCHANGED <<call, arg, ret, ipshell, log_file_path, log_file, is_executing, session, reqs,
                   post_data, code, cpc, code_lines, result, seen, wrote, pre>>

\* lines 182-186: join, dedent and start the thread; a TypeError from join
\* ends the handler (socketserver reports it and serves the next request)
execute_code_start ==
    /\ hpc = "start"
    /\ Return
    /\ IF JoinRaises(code)
       THEN UNCHANGED <<cpc, code_lines>>
       ELSE /\ cpc' = [cpc EXCEPT ![cur] = "echo"]
            /\ code_lines' = [code_lines EXCEPT ![cur] = Lines(code)]
    /\ UNCHANGED <<call, arg, ret, ipshell, log_file_path, log_file, is_executing, session, reqs,
                   resp, result, seen, wrote, pre>>

\* a thread that has yet to clear the flag (lines 133-134)
Stale == \E r \in ReqIds : cpc[r] \in {"echo", "run", "running", "release"}

\* a reset that leaves the namespace as it is
reset_scope_reset_NoClear ==
    /\ hpc = "reset_scope"
    /\ pre' = [pre EXCEPT ![cur] = [names |-> session, stale |-> Stale]]
    /\ hpc' = "reset_release"
    /\ UNCHANGED <<call, arg, ret, ipshell, log_file_path, log_file, is_executing, session, reqs,
                   post_data, code, resp, cpc, code_lines, result, seen, wrote>>

\* a reset that ends the threads that are still at work
reset_scope_reset_Cancels ==
    /\ hpc = "reset_scope"
    /\ session' = {}
    /\ pre' = [pre EXCEPT ![cur] = [names |-> session, stale |-> Stale]]
    /\ hpc' = "reset_release"
    /\ cpc' = [r \in ReqIds |->
                  IF cpc[r] \in {"echo", "run", "running", "release", "log"}
                  THEN "done" ELSE cpc[r]]
    /\ UNCHANGED <<call, arg, ret, ipshell, log_file_path, log_file, is_executing, reqs,
                   post_data, code, resp, code_lines, result, seen, wrote>>

\* lines 190-193: ipshell.reset(new_session=True)
reset_scope_reset ==
    /\ hpc = "reset_scope"
    /\ IF ipshell
       THEN /\ session' = {}
            /\ pre' = [pre EXCEPT ![cur] = [names |-> session, stale |-> Stale]]
            /\ hpc' = "reset_release"
            /\ UNCHANGED resp
       ELSE Send(cur, 500) /\ hpc' = "idle" /\ UNCHANGED <<session, pre>>
    /\ UNCHANGED <<call, arg, ret, ipshell, log_file_path, log_file, is_executing, reqs, post_data,
                   code, cpc, code_lines, result, seen, wrote>>

\* a reset that leaves the flag as it is
reset_scope_release_Skip ==
    /\ hpc = "reset_release"
    /\ hpc' = "reset_respond"
    /\ UNCHANGED <<call, arg, ret, ipshell, log_file_path, log_file, is_executing, session, reqs,
                   post_data, code, resp, cpc, code_lines, result, seen, wrote, pre>>

\* a reset that waits until every thread has cleared the flag
reset_scope_release_Waits ==
    /\ hpc = "reset_release"
    /\ ~Stale
    /\ is_executing' = FALSE
    /\ hpc' = "reset_respond"
    /\ UNCHANGED <<call, arg, ret, ipshell, log_file_path, log_file, session, reqs, post_data, code,
                   resp, cpc, code_lines, result, seen, wrote, pre>>

\* lines 194-195, under execution_lock
reset_scope_release ==
    /\ hpc = "reset_release"
    /\ is_executing' = FALSE
    /\ hpc' = "reset_respond"
    /\ UNCHANGED <<call, arg, ret, ipshell, log_file_path, log_file, session, reqs, post_data, code,
                   resp, cpc, code_lines, result, seen, wrote, pre>>

\* line 196
reset_scope_respond ==
    /\ hpc = "reset_respond"
    /\ Send(cur, 200)
    /\ hpc' = "reset_log"
    /\ UNCHANGED <<call, arg, ret, ipshell, log_file_path, log_file, is_executing, session, reqs,
                   post_data, code, cpc, code_lines, result, seen, wrote, pre>>

\* line 197
reset_scope_log(ok) ==
    /\ hpc = "reset_log"
    /\ (ok \/ log_file_path)
    /\ write_to_log(cur, ResetCode, Result(ResetMsg, NoText), ok)
    /\ hpc' = "idle"
    /\ UNCHANGED <<call, arg, ret, ipshell, log_file_path, is_executing, session, reqs, post_data,
                   code, resp, cpc, code_lines, result, seen, pre>>

(* ---------------------- _run_code_in_background ------------------------ *)
\* cpc[r]: "none" (no thread), "echo" (started, before line 87), "run" (in
\* the try, before run_cell), "running" (inside run_cell), "release" and
\* "log" (the finally block), "done" (returned), "crashed" (died of an
\* exception outside the try).

\* line 87: echo the code to the console; rich.print is outside the try
echo_code(r, ok) ==
    /\ cpc[r] = "echo"
    /\ cpc' = [cpc EXCEPT ![r] = IF ok THEN "run" ELSE "crashed"]
    /\ UNCHANGED <<call, arg, ret, ipshell, log_file_path, log_file, is_executing, session, reqs,
                   post_data, hpc, code, resp, code_lines, result, seen, wrote, pre>>

\* line 95: run_cell is entered and finds the namespace as it is
run_cell_begin(r) ==
    /\ cpc[r] = "run"
    /\ cpc' = [cpc EXCEPT ![r] = "running"]
    /\ seen' = [seen EXCEPT ![r] = session]
    /\ UNCHANGED <<call, arg, ret, ipshell, log_file_path, log_file, is_executing, session, reqs,
                   post_data, hpc, code, resp, code_lines, result, wrote, pre>>

\* the running code binds a name
run_cell_bind(r, n) ==
    /\ cpc[r] = "running"
    /\ code_lines[r] # <<>>
    /\ n \notin session
    /\ session' = session \cup {n}
    /\ UNCHANGED <<call, arg, ret, ipshell, log_file_path, log_file, is_executing, reqs, post_data,
                   hpc, code, resp, cpc, code_lines, result, seen, wrote, pre>>

\* lines 95-122: run_cell returns e and the result is classified and echoed
run_cell_return(r, e) ==
    /\ cpc[r] = "running"
    /\ e \in EngineResults(code_lines[r])
    /\ result' = [result EXCEPT ![r] = Classify(e)]
    /\ cpc' = [cpc EXCEPT ![r] = "release"]
    /\ UNCHANGED <<call, arg, ret, ipshell, log_file_path, log_file, is_executing, session, reqs,
                   post_data, hpc, code, resp, code_lines, seen, wrote, pre>>

\* lines 124-130: an exception inside the try (run_cell raises, or the echo
\* of the output does), with out the stdout captured before it; there is
\* nothing to run or to echo when no code was submitted
run_cell_raise(r, out) ==
    /\ cpc[r] = "running"
    /\ code_lines[r] # <<>>
    /\ result' = [result EXCEPT ![r] = Result(out, FormatExc)]
    /\ cpc' = [cpc EXCEPT ![r] = "release"]
    /\ UNCHANGED <<call, arg, ret, ipshell, log_file_path, log_file, is_executing, session, reqs,
                   post_data, hpc, code, resp, code_lines, seen, wrote, pre>>

\* a finally block that goes to the log without clearing the flag
release_gate_Skip(r) ==
    /\ cpc[r] = "release"
    /\ cpc' = [cpc EXCEPT ![r] = "log"]
    /\ UNCHANGED <<call, arg, ret, ipshell, log_file_path, log_file, is_executing, session, reqs,
                   post_data, hpc, code, resp, code_lines, result, seen, wrote, pre>>

\* lines 133-134, under execution_lock
release_gate(r) ==
    /\ cpc[r] = "release"
    /\ is_executing' = FALSE
    /\ cpc' = [cpc EXCEPT ![r] = "log"]
    /\ UNCHANGED <<call, arg, ret, ipshell, log_file_path, log_file, session, reqs, post_data, hpc,
                   code, resp, code_lines, result, seen, wrote, pre>>

\* line 135
log_result(r, ok) ==
    /\ cpc[r] = "log"
    /\ (ok \/ log_file_path)
    /\ write_to_log(r, code_lines[r], result[r], ok)
    /\ cpc' = [cpc EXCEPT ![r] = "done"]
    /\ result' = [result EXCEPT ![r] = EmptyResult]
    /\ UNCHANGED <<call, arg, ret, ipshell, log_file_path, is_executing, session, reqs, post_data,
                   hpc, code, resp, code_lines, seen, pre>>

(* --------------------------- specification ----------------------------- *)

Next ==
    \/ \E q \in Requests : do_GET(q)
    \/ \E q \in Requests : do_POST(q)
    \/ execute_code_validate
    \/ execute_code_gate
    \/ execute_code_respond
    \/ execute_code_start
    \/ reset_scope_reset
    \/ reset_scope_release
    \/ reset_scope_respond
    \/ \E ok \in BOOLEAN : reset_scope_log(ok)
    \/ \E r \in ReqIds, ok \in BOOLEAN : echo_code(r, ok)
    \/ \E r \in ReqIds : run_cell_begin(r)
    \/ \E r \in ReqIds, n \in Names : run_cell_bind(r, n)
    \/ \E r \in ReqIds, e \in UNION { EngineResults(l) : l \in {<<>>, <<"x = 1">>} } :
          run_cell_return(r, e)
    \/ \E r \in ReqIds : run_cell_raise(r, NoText)
    \/ \E r \in ReqIds : release_gate(r)
    \/ \E r \in ReqIds, ok \in BOOLEAN : log_result(r, ok)

Spec == Init /\ [][Next]_vars

(* ----------------------------- the reset race ------------------------- *)
\* Runs of up to MaxRace requests, each a /reset or a well-formed /execute,
\* with logging off and the echo of line 87 succeeding.

RaceRequests ==
    { q \in Requests :
        \/ q.path = "/reset"
        \/ q.path = "/execute" /\ q.body = Body(TRUE, "obj", TRUE, "list", <<JStr("x = 1")>>) }

RaceInit == Init /\ ~log_file_path

RaceNext ==
    \/ \E q \in RaceRequests : do_POST_UpTo(q, MaxRace)
    \/ execute_code_validate
    \/ execute_code_gate
    \/ execute_code_respond
    \/ execute_code_start
    \/ reset_scope_reset
    \/ reset_scope_release
    \/ reset_scope_respond
    \/ reset_scope_log(TRUE)
    \/ \E r \in ReqIds : echo_code(r, TRUE)
    \/ \E r \in ReqIds : run_cell_begin(r)
    \/ \E r \in ReqIds, n \in Names : run_cell_bind(r, n)
    \/ \E r \in ReqIds, e \in EngineResults(<<"x = 1">>) : run_cell_return(r, e)
    \/ \E r \in ReqIds : run_cell_raise(r, NoText)
    \/ \E r \in ReqIds : release_gate(r)
    \/ \E r \in ReqIds : log_result(r, TRUE)

RaceSpec == RaceInit /\ [][RaceNext]_vars

(* ------------------------ serving without a shell --------------------- *)
\* The handlers serving while the global ipshell still has the value of line
\* 19.  run_server assigns the shell (line 254) before it builds the server
\* (line 262), so its own handlers never see None; this is the class
\* CodeExecutionHandler served with the module as it is after import.

UninitInit ==
    /\ NoCall
    /\ ipshell = FALSE
    /\ log_file_path \in BOOLEAN
    /\ log_file = IF log_file_path THEN <<HeaderBlock>> ELSE <<>>
    /\ is_executing = FALSE
    /\ session = {}
    /\ reqs = <<>>
    /\ post_data = NoBody
    /\ hpc = "idle"
    /\ code = <<>>
    /\ resp = [r \in ReqIds |-> 0]
    /\ cpc = [r \in ReqIds |-> "none"]
    /\ code_lines = [r \in ReqIds |-> <<>>]
    /\ result = [r \in ReqIds |-> EmptyResult]
    /\ seen = [r \in ReqIds |-> {}]
    /\ wrote = [r \in ReqIds |-> ""]
    /\ pre = [r \in ReqIds |-> [names |-> {}, stale |-> FALSE]]

\* the steps a server without a shell can take
UninitNext ==
    \/ \E q \in Requests : do_GET(q)
    \/ \E q \in Requests : do_POST(q)
    \/ execute_code_validate
    \/ reset_scope_reset

UninitSpec == UninitInit /\ [][UninitNext]_vars

(* ------------------- functions called on their own -------------------- *)

\* the state of the server, which a function called on its own leaves alone
server == <<ipshell, log_file_path, log_file, is_executing, session, reqs, post_data,
            hpc, code, resp, cpc, code_lines, result, seen, wrote, pre>>

\* strip_ansi_codes is called on a text, and again on what it returned
StripInit ==
    /\ Started /\ ~log_file_path
    /\ call = "strip" /\ arg \in Texts /\ ret = <<>>

strip_call ==
    /\ call = "strip" /\ Len(ret) < 2
    /\ ret' = Append(ret, strip_ansi_codes(IF ret = <<>> THEN arg ELSE ret[Len(ret)]))
    /\ UNCHANGED <<server, call, arg>>

StripNext == strip_call

StripSpec == StripInit /\ [][StripNext]_vars

\* what capture_output can hold: texts of printed characters and newlines
Streams == UNION { [1..k -> {"o", "NL"}] : k \in 0..MaxText }

\* lines 99-122 are run on an engine result
ClassifyInit ==
    /\ Started /\ ~log_file_path
    /\ call = "classify" /\ ret = <<>>
    /\ \E out, err \in Streams, pf, rf \in BOOLEAN : arg = EngineResult(out, err, pf, rf)

classify_call ==
    /\ call = "classify" /\ ret = <<>>
    /\ ret' = <<Classify(arg)>>
    /\ UNCHANGED <<server, call, arg>>

ClassifyNext == classify_call

ClassifySpec == ClassifyInit /\ [][ClassifyNext]_vars

(* ------------------------------ vocabulary ----------------------------- *)

IsExec(r) == r <= Len(reqs) /\ reqs[r] = "execute"
IsReset(r) == r <= Len(reqs) /\ reqs[r] = "reset"

\* request r has been answered 200 by execute_code
Accepted(r) == IsExec(r) /\ resp[r] = 200

\* request r has set the flag (line 178)
Admitted(r) == IsExec(r) /\ (resp[r] = 200 \/ (r = cur /\ hpc = "respond"))

\* the thread of r is past lines 133-134
PastRelease(r) == cpc[r] \in {"log", "done"}

InFlight(r) == Admitted(r) /\ ~PastRelease(r)

\* no /reset has been received in the run
NoReset == \A i \in 1..Len(reqs) : reqs[i] # "reset"

\* no /reset has been received after request k
NoResetAfter(k) == \A j \in (k + 1)..Len(reqs) : reqs[j] # "reset"

\* the places of the file that request r's writes appended
Records(r) == { i \in 1..Len(log_file) : log_file[i].kind = "record" /\ log_file[i].req = r }

\* the server thread is between requests and no thread is alive
Quiescent == hpc = "idle" /\ \A r \in ReqIds : cpc[r] \in {"none", "done", "crashed"}

\* r is the admitted request that set the flag last, and the flag is still set
Holds(r) == is_executing /\ Admitted(r) /\ \A r2 \in ReqIds : Admitted(r2) => r2 <= r

\* the server thread takes the step of lines 171-178
GateStep == hpc = "gate" /\ hpc' # "gate"

(* -------------------------------- C1 ----------------------------------- *)

\* C1: in a run with no /reset, at most one accepted execution is between its
\* admission in execute_code and the gate release of its thread.
C1_AtMostOneInFlight ==
    NoReset => Cardinality({ r \in ReqIds : InFlight(r) }) <= 1

\* a second execution is running after a first one was admitted and released
C1_Witness ==
    /\ NoReset
    /\ \E r1, r2 \in ReqIds :
          r1 < r2 /\ Accepted(r1) /\ PastRelease(r1) /\ Accepted(r2) /\ cpc[r2] = "running"

(* -------------------------------- C2 ----------------------------------- *)

\* C2: every /execute answered 200 is followed by its own thread clearing the
\* flag, whatever fails on the way; so once the server thread is idle and no
\* thread is alive, every accepted execution is past its gate release.
C2_ReleasedOnEveryPath ==
    Quiescent => \A r \in ReqIds : Accepted(r) => PastRelease(r)

(* -------------------------------- C3 ----------------------------------- *)

\* an /execute that finds the flag set is answered 409 and the handler returns
\* with the flag, the threads, the session and the file as they were
C3_RejectNoEffect ==
    GateStep /\ is_executing =>
        /\ resp'[cur] = 409
        /\ hpc' = "idle"
        /\ UNCHANGED <<is_executing, cpc, code_lines, session, log_file, seen, wrote>>

\* C3 as stated: 409 without side effects when the flag is set, and no
\* /execute is admitted while an execution is inside the engine.
C3_Original ==
    [][/\ C3_RejectNoEffect
       /\ (GateStep /\ ~is_executing => \A r \in ReqIds : cpc[r] # "running")]_vars

\* C3 amended: 409 without side effects when the flag is set, and in a run
\* with no /reset no /execute is admitted while the thread of an earlier one
\* has yet to release the gate.
C3_RejectedWhileBusy ==
    [][/\ C3_RejectNoEffect
       /\ (GateStep /\ ~is_executing /\ NoReset =>
              \A r \in ReqIds : cpc[r] \notin {"echo", "run", "running", "release"})]_vars

\* a request was answered 409 while an execution is inside the engine
C3_Witness ==
    /\ hpc = "idle"
    /\ cur >= 1 /\ IsExec(cur) /\ resp[cur] = 409
    /\ NoReset
    /\ \E r \in ReqIds : cpc[r] = "running"

(* -------------------------------- C4 ----------------------------------- *)

\* the body does not decode to an object whose "code" is a list of strings
Malformed(b) ==
    \/ ~b.valid
    \/ b.top # "obj"
    \/ ~b.has_code
    \/ b.code_type # "list"
    \/ \E i \in 1..Len(b.items) : b.items[i].t # "str"

\* C4: an /execute whose body is malformed is answered 400 by the validation
\* step, with the flag, the session and the file unchanged.
C4_MalformedIs400 ==
    [][hpc = "execute_code" /\ hpc' # "execute_code" /\ Malformed(post_data) =>
         /\ resp'[cur] = 400
         /\ UNCHANGED <<is_executing, session, log_file>>]_vars

(* -------------------------------- C5 ----------------------------------- *)

\* C5: a thread exists for an /execute (so its echo, its engine call and its
\* log append can have happened) only after the 200 was sent for it.
C5_ResponseFirst ==
    \A r \in ReqIds :
        IsExec(r) /\ (cpc[r] # "none" \/ Records(r) # {}) => resp[r] = 200

\* an accepted execution has run and appended its record
C5_Witness ==
    \E r \in ReqIds : Accepted(r) /\ cpc[r] = "done" /\ Records(r) # {}

(* -------------------------------- C6 ----------------------------------- *)

\* C6: with logging on and no failed write, once nothing is left to run every
\* /execute answered 200 has exactly one record, which carries its code
\* lines; a request answered 400, 404, 409 or 500 has none.
C6_OneRecordEach ==
    /\ log_file_path /\ Quiescent /\ (\A r \in ReqIds : wrote[r] # "failed") =>
          \A r \in ReqIds :
              Accepted(r) =>
                  /\ Cardinality(Records(r)) = 1
                  /\ \A i \in Records(r) :
                        /\ log_file[i].code = code_lines[r]
                        /\ code_lines[r] = <<>> => log_file[i].content = NoText
    /\ \A r \in ReqIds : resp[r] \in {400, 404, 409, 500} => Records(r) = {}

(* -------------------------------- C7 ----------------------------------- *)

\* the thread of r fails to write its record
LogFailStep(r) == IsExec(r) /\ wrote[r] = "" /\ wrote'[r] = "failed"

Returned(k) == IsReset(k) /\ (k < cur \/ hpc = "idle")

\* the synthetic records of reset k
ResetRecords(k) ==
    { i \in Records(k) : log_file[i].code = ResetCode /\ log_file[i].content = ResetMsg }

\* what a /reset does to the session and the flag, whatever the state
C8_ResetSteps ==
    /\ hpc = "reset_scope" /\ hpc' # "reset_scope" => session' = {}
    /\ hpc = "reset_log" /\ hpc' = "idle" => ~is_executing' /\ resp'[cur] = 200

\* C8 as stated: a /reset is answered 200, clears the session, leaves the
\* flag clear when its handler returns, and appends exactly one synthetic
\* record.
C8_Original ==
    /\ [](\A k \in ReqIds :
             Returned(k) => resp[k] = 200 /\ Cardinality(ResetRecords(k)) = 1)
    /\ [][C8_ResetSteps]_vars

\* C8 amended: as stated, but the one synthetic record is appended when
\* logging is on and the write succeeds, and no record otherwise.
C8_ResetAlways ==
    /\ [](\A k \in ReqIds :
             Returned(k) =>
                 /\ resp[k] = 200
                 /\ Records(k) = ResetRecords(k)
                 /\ Cardinality(ResetRecords(k)) =
                        IF log_file_path /\ wrote[k] # "failed" THEN 1 ELSE 0)
    /\ [][C8_ResetSteps]_vars

\* a /reset handled while the flag was held by a running execution has
\* returned with its record written
C8_Witness ==
    \E k \in ReqIds :
        /\ Returned(k) /\ k = cur /\ wrote[k] = "ok" /\ ~is_executing
        /\ \E r \in ReqIds : r < k /\ Accepted(r) /\ cpc[r] = "running"

(* -------------------------------- C9 ----------------------------------- *)

\* r is the first /execute answered 200 after request k
NextAccepted(k, r) ==
    /\ k < r /\ Accepted(r)
    /\ \A r2 \in (k + 1)..(r - 1) : ~Accepted(r2)

\* the engine call of r has started, so seen[r] is what it found
Begun(r) == cpc[r] \in {"running", "release", "log", "done"}

\* C9 as stated: the first execution accepted after a /reset answered 200
\* finds none of the names that were bound when the reset was handled.
C9_Original ==
    \A k, r \in ReqIds :
        IsReset(k) /\ resp[k] = 200 /\ NextAccepted(k, r) /\ Begun(r) =>
            seen[r] \cap pre[k].names = {}

\* C9 amended: the same, for a /reset handled when every execution admitted
\* before it had released the gate, and as long as no further /reset has been
\* received.
C9_FreshAfterReset ==
    \A k, r \in ReqIds :
        /\ IsReset(k) /\ resp[k] = 200 /\ ~pre[k].stale /\ NoResetAfter(k)
        /\ NextAccepted(k, r) /\ Begun(r)
        => seen[r] \cap pre[k].names = {}

\* a reset found a name bound and no thread holding the gate, and the next
\* accepted execution has started
C9_Witness ==
    \E k, r \in ReqIds :
        /\ IsReset(k) /\ resp[k] = 200 /\ ~pre[k].stale /\ pre[k].names # {}
        /\ NoResetAfter(k) /\ NextAccepted(k, r) /\ Begun(r)

(* -------------------------------- C10 ---------------------------------- *)

\* C10: a /reset never waits for a running execution: each of its steps can
\* be taken in every state its handler is in, and the step of lines 194-195
\* clears the flag and leaves every thread where it is.  So the state of
\* C10_Witness is reached, in which two executions are inside the engine.
C10_ResetDoesNotWait ==
    /\ [](/\ hpc = "reset_scope" => ENABLED reset_scope_reset
          /\ hpc = "reset_release" => ENABLED reset_scope_release
          /\ hpc = "reset_respond" => ENABLED reset_scope_respond)
    /\ [][hpc = "reset_release" /\ hpc' # "reset_release" =>
             ~is_executing' /\ cpc' = cpc]_vars

\* an execution admitted before a /reset and one admitted after it are inside
\* run_cell at the same time
C10_Witness ==
    \E r1, k, r2 \in ReqIds :
        /\ r1 < k /\ k < r2
        /\ Accepted(r1) /\ IsReset(k) /\ resp[k] = 200 /\ Accepted(r2)
        /\ cpc[r1] = "running" /\ cpc[r2] = "running"

(* -------------------------------- C11 ---------------------------------- *)

\* C11: a /reset leaves the threads started before it at work on the session
\* it has just reset.  The step of lines 190-193 moves no thread; after it a
\* thread started before the /reset and still inside run_cell can bind a
\* name; once the /reset has written its record, such a thread at line 135
\* can write its own; and every record is appended at the end of the file,
\* so after whatever a /reset has written there.  So the state of
\* C11_Witness is reached: the names of an execution admitted before a
\* /reset bound in the new session, and its record after the record of that
\* /reset.
C11_StaleExecutionContinues ==
    /\ [][hpc = "reset_scope" /\ hpc' # "reset_scope" =>
             cpc' = cpc /\ code_lines' = code_lines]_vars
    /\ [](\A r \in ReqIds :
            r < cur /\ IsReset(cur) =>
                /\ hpc # "reset_scope" /\ cpc[r] = "running" /\ code_lines[r] # <<>> =>
                      \A n \in Names \ session : ENABLED run_cell_bind(r, n)
                /\ hpc = "idle" /\ Records(cur) # {} /\ cpc[r] = "log" =>
                      ENABLED log_result(r, TRUE))
    /\ [][\A r \in ReqIds :
             cpc[r] = "log" /\ cpc'[r] = "done" /\ wrote'[r] = "ok" =>
                 /\ Len(log_file') = Len(log_file) + 1
                 /\ SubSeq(log_file', 1, Len(log_file)) = log_file
                 /\ log_file'[Len(log_file')].req = r]_vars

\* the only accepted execution was admitted before the last /reset; a name
\* is bound in the session that /reset cleared, and the record of the
\* execution follows the record of the /reset
C11_Witness ==
    \E r, k \in ReqIds :
        /\ r < k /\ Accepted(r) /\ IsReset(k) /\ resp[k] = 200 /\ NoResetAfter(k)
        /\ \A r2 \in ReqIds : Accepted(r2) => r2 = r
        /\ hpc = "idle" /\ session # {}
        /\ \E i \in Records(k), j \in Records(r) : i < j

(* -------------------------------- C12 ---------------------------------- *)

\* C12: an /execute that follows an accepted execution directly, and comes
\* to the gate after that execution has cleared the flag, finds the flag
\* clear, sets it and is answered 200; the thread it starts clears the flag
\* again at lines 133-134.  So executions submitted one after the other are
\* all accepted, and the flag goes Busy, Idle, Busy, Idle.
C12_SequentialAccepted ==
    /\ [](hpc = "gate" /\ cur > 1 /\ Accepted(cur - 1) /\ PastRelease(cur - 1) =>
              ~is_executing)
    /\ [][GateStep /\ ~is_executing => is_executing' /\ hpc' = "respond"]_vars
    /\ [][hpc = "respond" /\ hpc' # "respond" => resp'[cur] = 200]_vars
    /\ [][\A r \in ReqIds :
             cpc[r] = "release" /\ cpc'[r] # "release" => ~is_executing']_vars

\* two executions, the second submitted after the first has cleared the
\* flag, have both been answered 200 and have both returned; the flag is clear
C12_Witness ==
    /\ Len(reqs) >= 2 /\ Accepted(1) /\ Accepted(2)
    /\ cpc[1] = "done" /\ cpc[2] = "done" /\ ~is_executing

(* -------------------------------- C13 ---------------------------------- *)

\* every ESC of t starts a match of ansi_regex
EveryEscMatches(t) == \A i \in 1..Len(t) : t[i] = "ESC" => MatchLen(t, i) > 0

NoEsc(t) == \A i \in 1..Len(t) : t[i] # "ESC"

\* C13 as stated: strip_ansi_codes(strip_ansi_codes(t)) = strip_ansi_codes(t)
\* for every text t, and strip_ansi_codes(t) = t when t holds no ESC.
C13_Original ==
    call = "strip" =>
        /\ Len(ret) = 2 => ret[2] = ret[1]
        /\ Len(ret) >= 1 /\ NoEsc(arg) => ret[1] = arg

\* C13, amended: strip_ansi_codes(t) = t when t holds no ESC, and
\* strip_ansi_codes(strip_ansi_codes(t)) = strip_ansi_codes(t) for every t
\* in which every ESC starts an escape sequence.
C13_StripFixpoints ==
    call = "strip" =>
        /\ Len(ret) = 2 /\ EveryEscMatches(arg) => ret[2] = ret[1]
        /\ Len(ret) >= 1 /\ NoEsc(arg) => ret[1] = arg

\* a text with an escape sequence and other text has been stripped twice
C13_Witness ==
    /\ call = "strip" /\ Len(ret) = 2
    /\ ~NoEsc(arg) /\ EveryEscMatches(arg)
    /\ ret[1] # arg /\ ret[1] # <<>> /\ ret[2] = ret[1]

(* -------------------------------- C14 ---------------------------------- *)

\* the request that has just arrived
new == Len(reqs')

\* C14: whenever the server thread is between handlers it can take a GET
\* /health and a request for an unknown path, whatever the threads are
\* doing; the first is answered 200 and the second 404 in the step that
\* takes it, and the step leaves the flag, the session, the transcript and
\* every thread as they were.
C14_HealthAndUnknown ==
    /\ [](hpc = "idle" /\ Len(reqs) < MaxReq =>
              \A q \in Requests :
                  /\ Kind(q) \in {"health", "unknown"} /\ q.method = "GET" =>
                        ENABLED do_GET(q)
                  /\ Kind(q) = "unknown" /\ q.method = "POST" => ENABLED do_POST(q))
    /\ [][new > Len(reqs) /\ reqs'[new] \in {"health", "unknown"} =>
             /\ resp'[new] = IF reqs'[new] = "health" THEN 200 ELSE 404
             /\ hpc' = "idle"
             /\ UNCHANGED <<is_executing, session, log_file, cpc>>]_vars

\* with an execution inside run_cell and the flag set, a GET /health was
\* answered 200 and a request for an unknown path 404
C14_Witness ==
    \E r, h, u \in ReqIds :
        /\ r < h /\ r < u /\ Accepted(r) /\ cpc[r] = "running" /\ is_executing
        /\ h <= Len(reqs) /\ reqs[h] = "health" /\ resp[h] = 200
        /\ u <= Len(reqs) /\ reqs[u] = "unknown" /\ resp[u] = 404

(* -------------------------------- C15 ---------------------------------- *)

\* C15: while ipshell is None, the handler of an /execute or a /reset
\* answers 500 in its first step and returns, leaving the flag, the session,
\* the transcript and the threads as they were; the server thread is then
\* between handlers and takes the next request.
C15_NoShellIs500 ==
    /\ [][~ipshell /\ hpc \in {"execute_code", "reset_scope"} /\ hpc' # hpc =>
             /\ resp'[cur] = 500 /\ hpc' = "idle"
             /\ UNCHANGED <<is_executing, session, log_file, cpc>>]_vars
    /\ [](~ipshell =>
              \A r \in ReqIds :
                  (IsExec(r) \/ IsReset(r)) /\ resp[r] # 0 => resp[r] = 500)
    /\ [](~ipshell /\ hpc = "idle" /\ Len(reqs) < MaxReq =>
              \A q \in Requests : ENABLED (do_GET(q) \/ do_POST(q)))

\* without a shell an /execute and a /reset were answered 500, and the GET
\* /health that followed them 200
C15_Witness ==
    /\ ~ipshell /\ ~is_executing
    /\ \E e, k, h \in ReqIds :
          /\ e < h /\ k < h /\ h <= Len(reqs)
          /\ IsExec(e) /\ resp[e] = 500 /\ IsReset(k) /\ resp[k] = 500
          /\ reqs[h] = "health" /\ resp[h] = 200

(* -------------------------------- C16 ---------------------------------- *)

\* the lines 99-122 have run on arg and returned ret[1]
Classified == call = "classify" /\ ret # <<>>

\* the three cases of C16 in which the captured streams are the outcome or
\* the traceback stands in for them
RunCasesAsStated ==
    /\ ~arg.error_before_exec /\ arg.error_in_exec
         /\ arg.stdout = NoText /\ arg.stderr = NoText =>
            ret[1] = Result(NoText, Traceback)
    /\ ~arg.error_before_exec /\ arg.error_in_exec
         /\ (arg.stdout # NoText \/ arg.stderr # NoText) =>
            ret[1] = Result(arg.stdout, arg.stderr)
    /\ ~arg.error_before_exec /\ ~arg.error_in_exec =>
            ret[1] = Result(arg.stdout, arg.stderr)

\* C16 as stated: on a pre-execution failure the error text is the
\* descriptive message; on a run failure with both streams empty it is the
\* synthesized traceback; on a run failure with any captured output the
\* captured stdout and stderr are the outcome; on success the outcome is the
\* captured streams.
C16_Original ==
    Classified =>
        /\ arg.error_before_exec => ret[1].error = PreMsg
        /\ RunCasesAsStated

\* C16, amended: on a pre-execution failure the error text is the captured
\* stderr followed by the descriptive message and the output is the captured
\* stdout; the other three cases as stated.
C16_Outcome ==
    Classified =>
        /\ arg.error_before_exec => ret[1] = Result(arg.stdout, arg.stderr \o PreMsg)
        /\ RunCasesAsStated

\* a pre-execution failure with text captured on stderr has been classified
C16_Witness ==
    /\ Classified
    /\ arg.error_before_exec /\ arg.stderr # NoText
    /\ ret[1].error = arg.stderr \o PreMsg

(* -------------------------------- C17 ---------------------------------- *)

\* the places of the file that hold a header
Headers == { i \in 1..Len(log_file) : log_file[i].kind = "header" }

\* C17 as stated: the file holds nothing, no header either, until the first
\* record is appended; it never holds more than one header, and the header
\* precedes every record.
C17_Original ==
    /\ (\A i \in 1..Len(log_file) : log_file[i].kind # "record") => log_file = <<>>
    /\ Cardinality(Headers) <= 1
    /\ log_file # <<>> => log_file[1].kind = "header"

\* C17, amended: with logging enabled the file and its header exist from
\* startup on, before any request is received; the header is written once
\* and precedes every record, and the file only grows at its end.  With
\* logging disabled there is no file.
C17_HeaderAtStartup ==
    /\ [](IF log_file_path THEN Headers = {1} ELSE log_file = <<>>)
    /\ [][log_file' # log_file =>
             /\ Len(log_file') = Len(log_file) + 1
             /\ SubSeq(log_file', 1, Len(log_file)) = log_file
             /\ log_file'[Len(log_file')].kind = "record"]_vars

\* the file holds the header and, after it, the records of an execution and
\* of a /reset
C17_Witness ==
    /\ log_file_path /\ Headers = {1}
    /\ \E r, k \in ReqIds : Accepted(r) /\ IsReset(k) /\ Records(r) # {} /\ Records(k) # {}

(* -------------------------------- C18 ---------------------------------- *)

\* C18 as stated: in a run with no /reset, when the record of an accepted
\* execution is in the file, every execution accepted before it has had its
\* write_to_log, so that the records are in the order of admission.
C18_Original ==
    NoReset =>
        \A r1, r2 \in ReqIds :
            r1 < r2 /\ Accepted(r1) /\ Accepted(r2) /\ Records(r2) # {} =>
                wrote[r1] # ""

\* C18, amended: in a run with no /reset, when the record of an accepted
\* execution is in the file, every execution accepted before it has cleared
\* the flag (lines 133-134); it need not have written its record.
C18_RecordAfterEarlierRelease ==
    NoReset =>
        \A r1, r2 \in ReqIds :
            r1 < r2 /\ Accepted(r1) /\ Accepted(r2) /\ Records(r2) # {} =>
                PastRelease(r1)

\* the record of the second execution is in the file and the first, which
\* has cleared the flag, has yet to write its own
C18_Witness ==
    /\ NoReset /\ log_file_path
    /\ \E r1, r2 \in ReqIds :
          /\ r1 < r2 /\ Accepted(r1) /\ Accepted(r2)
          /\ Records(r2) # {} /\ cpc[r1] = "log" /\ Records(r1) = {}

(* -------------------------------- C19 ---------------------------------- *)

\* request r was received after every /reset of the run
AfterLastReset(r) == \A k \in 1..Len(reqs) : reqs[k] = "reset" => k < r

\* C19 as stated: two executions admitted after the most recent /reset are
\* never inside run_cell at the same time.
C19_Original ==
    \A r1, r2 \in ReqIds :
        r1 < r2 /\ Accepted(r1) /\ Accepted(r2) /\ AfterLastReset(r1) =>
            ~(cpc[r1] = "running" /\ cpc[r2] = "running")

\* C19, amended: two executions admitted after the most recent /reset are
\* inside run_cell at the same time only if, when that /reset was handled, a
\* thread started before it had yet to clear the flag.
C19_PostResetExclusive ==
    \A r1, r2 \in ReqIds :
        /\ r1 < r2 /\ Accepted(r1) /\ Accepted(r2) /\ AfterLastReset(r1)
        /\ cpc[r1] = "running" /\ cpc[r2] = "running"
        => \E k \in ReqIds : IsReset(k) /\ NoResetAfter(k) /\ pre[k].stale

\* after a /reset handled with no thread at work, an execution has been
\* admitted, has run and has cleared the flag, and the next one is inside
\* run_cell
C19_Witness ==
    \E k, r1, r2 \in ReqIds :
        /\ k < r1 /\ r1 < r2
        /\ IsReset(k) /\ resp[k] = 200 /\ ~pre[k].stale /\ NoResetAfter(k)
        /\ Accepted(r1) /\ PastRelease(r1) /\ Accepted(r2) /\ cpc[r2] = "running"

====
